---- MODULE Spec2Model ----
(***************************************************************************)
(* Model of src/App.vue: the projection of an on-chain workflow (states    *)
(* and transitions read from a contract) into the nodes and edges of a     *)
(* Vue Flow diagram, and the classification of the nodes (adjustView).     *)
(*                                                                         *)
(* Every remote read (client.readContract) is a promise that the remote    *)
(* side resolves or rejects later.  Each action below is one turn of the   *)
(* JavaScript event loop: a callback runs to its next await or to its end. *)
(* Promise reactions that are already queued (microtasks) run before any   *)
(* network response or user click is handled.                              *)
(***************************************************************************)
EXTENDS Integers, Sequences, FiniteSets

(***************************************************************************)
(* Bounds of the model.                                                    *)
(***************************************************************************)
\* largest value the stateIndex read resolves to
MaxStateCount == 3
\* largest value the transitionIndex read resolves to
MaxTransitionCount == 3
\* largest state id a fetched transition tuple refers to
MaxRef == 3

\* no value yet (a promise that has not resolved)
NoValue == -1

(***************************************************************************)
(* Values the remote contract can answer with.                             *)
(***************************************************************************)
Counts(max) == 0..max
Labels == {"A", "B"}
Refs == 1..MaxRef
\* states(i) resolves to a tuple whose element 0 is the label
StateTuples == {<<l>> : l \in Labels}
\* transitions(j) resolves to (label, source, target, flag); JavaScript
\* indexes it from 0, the sequences here from 1
TransitionTuples ==
    {<<"go", s, (s % MaxRef) + 1, s % 2 = 1>> : s \in Refs}
\* values Math.random() * 400 is drawn from
RandomCoords == {0, 399}

(***************************************************************************)
(* Number.prototype.toString / BigInt.prototype.toString for naturals.     *)
(***************************************************************************)
Digit(d) ==
    CASE d = 0 -> "0" [] d = 1 -> "1" [] d = 2 -> "2" [] d = 3 -> "3"
      [] d = 4 -> "4" [] d = 5 -> "5" [] d = 6 -> "6" [] d = 7 -> "7"
      [] d = 8 -> "8" [] d = 9 -> "9"

RECURSIVE toString(_)
toString(n) ==
    IF n < 10 THEN Digit(n) ELSE toString(n \div 10) \o Digit(n % 10)

VARIABLES
    pc,              \* where the run started by onInit stands
    states,          \* value the stateIndex read resolved to
    transitions,     \* value the transitionIndex read resolved to
    stateIndex,      \* loop variable of the first loop
    transitionIndex, \* loop variable of the second loop
    yPos,            \* vertical offset of the last placed node
    nodes,           \* nodes.value
    edges,           \* edges.value
    outstanding,     \* the read that is in flight, or none
    reads,           \* history: every read issued, in order
    fetched,         \* history: the tuples the transitions reads resolved to
    readyPromise,    \* promise returned by readOnchainData()
    fitViewCalls,    \* number of calls of vueFlowInstance.fitView()
    adjustViewCalls, \* number of calls of adjustView()
    rejections       \* history: number of reads that rejected

vars == <<pc, states, transitions, stateIndex, transitionIndex, yPos, nodes,
          edges, outstanding, reads, fetched, readyPromise, fitViewCalls,
          adjustViewCalls, rejections>>

xPos == 250

NoRead == [functionName |-> "none", arg |-> 0]
Read(f, a) == [functionName |-> f, arg |-> a]

\* NewNode with ids counted from 0
NewNodeZeroBased(index, state, y) ==
    [id |-> toString(index - 1),
     data |-> [label |-> state[1]],
     position |-> [x |-> xPos, y |-> y],
     class |-> "light",
     type |-> "default"]

\* NewEdge with source and target taken from each other's element
NewEdgeSwapped(index, transition) ==
    [id |-> index,
     label |-> transition[1],
     source |-> toString(transition[3]),
     target |-> toString(transition[2]),
     animated |-> transition[4],
     markerEnd |-> "arrowclosed"]

\* NewNode with the two coordinates taken for each other
NewNodeSwappedXY(index, state, y) ==
    [id |-> toString(index),
     data |-> [label |-> state[1]],
     position |-> [x |-> y, y |-> xPos],
     class |-> "light",
     type |-> "default"]

(***************************************************************************)
(* The records pushed by the two loops.                                    *)
(***************************************************************************)
NewNode(index, state, y) ==
    [id |-> toString(index),
     data |-> [label |-> state[1]],
     position |-> [x |-> xPos, y |-> y],
     class |-> "light",
     type |-> "default"]

NewEdge(index, transition) ==
    [id |-> index,
     label |-> transition[1],
     source |-> toString(transition[2]),
     target |-> toString(transition[3]),
     animated |-> transition[4],
     markerEnd |-> "arrowclosed"]

(***************************************************************************)
(* updateNode(id, {type}) of useVueFlow: assigns the type to the node with *)
(* that id and does nothing when there is no such node.                    *)
(***************************************************************************)
updateNode(ns, id, type) ==
    [k \in 1..Len(ns) |->
        IF ns[k].id = id THEN [ns[k] EXCEPT !.type = type] ELSE ns[k]]

\* HasOutgoing looking at the edge's target
HasIncoming(es, id) == \E k \in 1..Len(es) : es[k].target = id

\* edges.value.find((edge) => edge.source === node.id) found an edge
HasOutgoing(es, id) == \E k \in 1..Len(es) : es[k].source = id

\* the forEach of adjustView over nodes k..Len(ns)
RECURSIVE MarkOutputs(_, _, _)
MarkOutputs(ns, es, k) ==
    IF k > Len(ns) THEN ns
    ELSE IF ~HasOutgoing(es, ns[k].id)
         THEN MarkOutputs(updateNode(ns, ns[k].id, "output"), es, k + 1)
         ELSE MarkOutputs(ns, es, k + 1)

\* adjustView with the two steps in the other order
adjustViewOutputFirst(ns, es) ==
    updateNode(MarkOutputs(ns, es, 1), "1", "input")

\* adjustView giving every node the type input in its first step
adjustViewAllInput(ns, es) ==
    MarkOutputs([k \in 1..Len(ns) |-> [ns[k] EXCEPT !.type = "input"]], es, 1)

\* adjustView giving the type input to the first node that has no type yet
adjustViewFirstUntyped(ns, es) ==
    LET untyped == {k \in 1..Len(ns) : ns[k].type = "default"}
        first == CHOOSE k \in untyped : \A l \in untyped : k <= l
    IN  IF untyped = {} THEN MarkOutputs(ns, es, 1)
        ELSE MarkOutputs(updateNode(ns, ns[first].id, "input"), es, 1)

adjustView(ns, es) == MarkOutputs(updateNode(ns, "1", "input"), es, 1)

(***************************************************************************)
(* Initial state: the component is set up, the viewport not yet            *)
(* initialised.                                                            *)
(***************************************************************************)
Init ==
    /\ pc = "idle"
    /\ states = NoValue
    /\ transitions = NoValue
    /\ stateIndex = 0
    /\ transitionIndex = 0
    /\ yPos = 0
    /\ nodes = <<>>
    /\ edges = <<>>
    /\ outstanding = NoRead
    /\ reads = <<>>
    /\ fetched = <<>>
    /\ readyPromise = "none"
    /\ fitViewCalls = 0
    /\ adjustViewCalls = 0
    /\ rejections = 0

\* a promise reaction is queued and runs before any other event
MicrotaskQueued == readyPromise = "fulfilled" /\ fitViewCalls = 0

(***************************************************************************)
(* onInit: readOnchainData() issues the stateIndex read and returns the    *)
(* promise of its then().                                                  *)
(***************************************************************************)
OnInit ==
    /\ pc = "idle"
    /\ pc' = "stateIndex"
    /\ outstanding' = Read("stateIndex", 0)
    /\ reads' = Append(reads, Read("stateIndex", 0))
    /\ readyPromise' = "pending"
    /\ UNCHANGED <<states, transitions, stateIndex, transitionIndex, yPos,
                   nodes, edges, fetched, fitViewCalls, adjustViewCalls,
                   rejections>>

(***************************************************************************)
(* The stateIndex read resolves: the callback issues the transitionIndex   *)
(* read and returns nothing, so the promise readOnchainData returned is    *)
(* fulfilled now.                                                          *)
(***************************************************************************)
StateIndexResolved ==
    /\ pc = "stateIndex"
    /\ ~MicrotaskQueued
    /\ \E n \in Counts(MaxStateCount) : states' = n
    /\ pc' = "transitionIndex"
    /\ outstanding' = Read("transitionIndex", 0)
    /\ reads' = Append(reads, Read("transitionIndex", 0))
    /\ readyPromise' = "fulfilled"
    /\ UNCHANGED <<transitions, stateIndex, transitionIndex, yPos, nodes,
                   edges, fetched, fitViewCalls, adjustViewCalls, rejections>>

\* Issue that also starts the read of the next index, without awaiting
IssueAhead(f, a) ==
    /\ outstanding' = Read(f, a)
    /\ reads' = reads \o <<Read(f, a), Read(f, a + 1)>>

\* client.readContract(...) is called: the read is in flight
Issue(f, a) ==
    /\ outstanding' = Read(f, a)
    /\ reads' = Append(reads, Read(f, a))

\* TransitionsLoop calling adjustView() without awaiting the read
TransitionsLoopNoAwait(j, m, ns, es) ==
    /\ transitionIndex' = j
    /\ edges' = es
    /\ nodes' = adjustView(ns, es)
    /\ adjustViewCalls' = adjustViewCalls + 1
    /\ IF j < m
       THEN /\ pc' = "transitions"
            /\ outstanding' = Read("transitions", j)
            /\ reads' = Append(reads, Read("transitions", j))
       ELSE /\ pc' = "done"
            /\ outstanding' = NoRead
            /\ reads' = reads

\* TransitionsLoop with the bound included
TransitionsLoopInclusive(j, m, ns, es) ==
    /\ transitionIndex' = j
    /\ edges' = es
    /\ IF j <= m
       THEN /\ pc' = "transitions"
            /\ outstanding' = Read("transitions", j)
            /\ reads' = Append(reads, Read("transitions", j))
            /\ nodes' = ns
            /\ adjustViewCalls' = adjustViewCalls
       ELSE /\ pc' = "done"
            /\ outstanding' = NoRead
            /\ reads' = reads
            /\ nodes' = adjustView(ns, es)
            /\ adjustViewCalls' = adjustViewCalls + 1

(***************************************************************************)
(* The second loop from index j on, with m = Number(transitions): it       *)
(* issues the read of index j and suspends, or it ends and adjustView()    *)
(* is called.                                                              *)
(***************************************************************************)
TransitionsLoop(j, m, ns, es) ==
    /\ transitionIndex' = j
    /\ edges' = es
    /\ IF j < m
       THEN /\ pc' = "transitions"
            /\ Issue("transitions", j)
            /\ nodes' = ns
            /\ adjustViewCalls' = adjustViewCalls
       ELSE /\ pc' = "done"
            /\ outstanding' = NoRead
            /\ reads' = reads
            /\ nodes' = adjustView(ns, es)
            /\ adjustViewCalls' = adjustViewCalls + 1

\* StatesLoop with the bound included
StatesLoopInclusive(i, n, m, ns) ==
    /\ stateIndex' = i
    /\ IF i <= n
       THEN /\ pc' = "states"
            /\ Issue("states", i)
            /\ nodes' = ns
            /\ UNCHANGED <<transitionIndex, edges, adjustViewCalls>>
       ELSE TransitionsLoop(1, m, ns, edges)

(***************************************************************************)
(* The first loop from index i on, with n = Number(states): it issues the  *)
(* read of index i and suspends, or it ends and the second loop starts.    *)
(***************************************************************************)
StatesLoop(i, n, m, ns) ==
    /\ stateIndex' = i
    /\ IF i < n
       THEN /\ pc' = "states"
            /\ Issue("states", i)
            /\ nodes' = ns
            /\ UNCHANGED <<transitionIndex, edges, adjustViewCalls>>
       ELSE TransitionsLoop(1, m, ns, edges)

(***************************************************************************)
(* The promise reaction of onInit runs: fitView().                         *)
(***************************************************************************)
FitView ==
    /\ MicrotaskQueued
    /\ fitViewCalls' = fitViewCalls + 1
    /\ UNCHANGED <<pc, states, transitions, stateIndex, transitionIndex,
                   yPos, nodes, edges, outstanding, reads, fetched,
                   readyPromise, adjustViewCalls, rejections>>

(***************************************************************************)
(* The stateIndex read rejects: the promise readOnchainData returned       *)
(* rejects with it, and nothing else runs.                                 *)
(***************************************************************************)
StateIndexRejected ==
    /\ pc = "stateIndex"
    /\ ~MicrotaskQueued
    /\ pc' = "failed"
    /\ outstanding' = NoRead
    /\ readyPromise' = "rejected"
    /\ UNCHANGED <<states, transitions, stateIndex, transitionIndex, yPos,
                   nodes, edges, reads, fetched, fitViewCalls,
                   adjustViewCalls>>
    /\ rejections' = rejections + 1

(***************************************************************************)
(* The transitionIndex read resolves: the async callback starts, runs the  *)
(* first loop to its first await (or through both loops when they are      *)
(* empty).                                                                 *)
(***************************************************************************)
TransitionIndexResolved ==
    /\ pc = "transitionIndex"
    /\ ~MicrotaskQueued
    /\ \E m \in Counts(MaxTransitionCount) :
          /\ transitions' = m
          /\ yPos' = 50
          /\ StatesLoop(1, states, m, nodes)
    /\ UNCHANGED <<states, fetched, readyPromise, fitViewCalls, rejections>>

\* TransitionIndexRejected going on with a count of 0
TransitionIndexRejectedFallback ==
    /\ pc = "transitionIndex"
    /\ ~MicrotaskQueued
    /\ rejections' = rejections + 1
    /\ yPos' = 50
    /\ StatesLoop(1, states, 0, nodes)
    /\ UNCHANGED <<states, transitions, fetched, readyPromise, fitViewCalls>>

\* the transitionIndex read rejects: its then() has no rejection handler
TransitionIndexRejected ==
    /\ pc = "transitionIndex"
    /\ ~MicrotaskQueued
    /\ pc' = "failed"
    /\ outstanding' = NoRead
    /\ UNCHANGED <<states, transitions, stateIndex, transitionIndex, yPos,
                   nodes, edges, reads, fetched, readyPromise, fitViewCalls,
                   adjustViewCalls>>
    /\ rejections' = rejections + 1

(***************************************************************************)
(* The states(stateIndex) read resolves: the loop body pushes the node,    *)
(* and the loop goes on.                                                   *)
(***************************************************************************)
StateResolved ==
    /\ pc = "states"
    /\ ~MicrotaskQueued
    /\ \E state \in StateTuples :
          /\ yPos' = yPos + 100
          /\ StatesLoop(stateIndex + 1, states, transitions,
                        Append(nodes, NewNode(stateIndex, state, yPos + 100)))
    /\ UNCHANGED <<states, transitions, fetched, readyPromise, fitViewCalls,
                   rejections>>

\* StateRejected reading the same index again
StateRejectedRetry ==
    /\ pc = "states"
    /\ ~MicrotaskQueued
    /\ Issue("states", stateIndex)
    /\ rejections' = rejections + 1
    /\ UNCHANGED <<pc, states, transitions, stateIndex, transitionIndex, yPos,
                   nodes, edges, fetched, readyPromise, fitViewCalls,
                   adjustViewCalls>>

\* the states(stateIndex) read rejects: the await throws out of the callback
StateRejected ==
    /\ pc = "states"
    /\ ~MicrotaskQueued
    /\ pc' = "failed"
    /\ outstanding' = NoRead
    /\ UNCHANGED <<states, transitions, stateIndex, transitionIndex, yPos,
                   nodes, edges, reads, fetched, readyPromise, fitViewCalls,
                   adjustViewCalls>>
    /\ rejections' = rejections + 1

\* TransitionResolved dropping an edge whose source or target is no node
TransitionResolvedValidated ==
    /\ pc = "transitions"
    /\ ~MicrotaskQueued
    /\ \E transition \in TransitionTuples :
          LET edge == NewEdge(transitionIndex, transition)
              ids == {nodes[k].id : k \in 1..Len(nodes)}
          IN  /\ fetched' = Append(fetched, transition)
              /\ TransitionsLoop(transitionIndex + 1, transitions, nodes,
                                 IF edge.source \in ids /\ edge.target \in ids
                                 THEN Append(edges, edge) ELSE edges)
    /\ UNCHANGED <<states, transitions, stateIndex, yPos, readyPromise,
                   fitViewCalls, rejections>>

(***************************************************************************)
(* The transitions(transitionIndex) read resolves: the loop body pushes    *)
(* the edge, and the loop goes on or ends with adjustView().               *)
(***************************************************************************)
TransitionResolved ==
    /\ pc = "transitions"
    /\ ~MicrotaskQueued
    /\ \E transition \in TransitionTuples :
          /\ fetched' = Append(fetched, transition)
          /\ TransitionsLoop(transitionIndex + 1, transitions, nodes,
                             Append(edges,
                                    NewEdge(transitionIndex, transition)))
    /\ UNCHANGED <<states, transitions, stateIndex, yPos, readyPromise,
                   fitViewCalls, rejections>>

\* the transitions(transitionIndex) read rejects
TransitionRejected ==
    /\ pc = "transitions"
    /\ ~MicrotaskQueued
    /\ pc' = "failed"
    /\ outstanding' = NoRead
    /\ UNCHANGED <<states, transitions, stateIndex, transitionIndex, yPos,
                   nodes, edges, reads, fetched, readyPromise, fitViewCalls,
                   adjustViewCalls>>
    /\ rejections' = rejections + 1

(***************************************************************************)
(* The user clicks "Shuffle Node Positions": nodes.value is replaced by a  *)
(* copy in which every node has a random position.                         *)
(***************************************************************************)
updatePos ==
    /\ ~MicrotaskQueued
    /\ \E xs \in [1..Len(nodes) -> RandomCoords],
          ys \in [1..Len(nodes) -> RandomCoords] :
          nodes' = [k \in 1..Len(nodes) |->
                      [nodes[k] EXCEPT !.position = [x |-> xs[k], y |-> ys[k]]]]
    /\ UNCHANGED <<pc, states, transitions, stateIndex, transitionIndex,
                   yPos, edges, outstanding, reads, fetched, readyPromise,
                   fitViewCalls, adjustViewCalls, rejections>>

Next ==
    \/ OnInit
    \/ StateIndexResolved
    \/ StateIndexRejected
    \/ FitView
    \/ TransitionIndexResolved
    \/ TransitionIndexRejected
    \/ StateResolved
    \/ StateRejected
    \/ TransitionResolved
    \/ TransitionRejected
    \/ updatePos

Spec == Init /\ [][Next]_vars

(***************************************************************************)
(* The classifier on its own: adjustView() applied repeatedly to a graph   *)
(* as the two loops build it.                                              *)
(***************************************************************************)
\* number of times adjustView() is applied
MaxClassifications == 2

InitClassify ==
    /\ pc = "classify"
    /\ \E n \in 0..(MaxStateCount - 1), m \in 0..(MaxTransitionCount - 1) :
          \E ss \in [1..n -> StateTuples], ts \in [1..m -> TransitionTuples] :
             /\ states = n + 1
             /\ transitions = m + 1
             /\ stateIndex = n + 1
             /\ transitionIndex = m + 1
             /\ yPos = 50 + 100 * n
             /\ nodes = [k \in 1..n |-> NewNode(k, ss[k], 50 + 100 * k)]
             /\ edges = [k \in 1..m |-> NewEdge(k, ts[k])]
             /\ fetched = ts
    /\ outstanding = NoRead
    /\ reads = <<>>
    /\ readyPromise = "none"
    /\ fitViewCalls = 0
    /\ adjustViewCalls = 0
    /\ rejections = 0

Classify ==
    /\ pc = "classify"
    /\ adjustViewCalls < MaxClassifications
    /\ nodes' = adjustView(nodes, edges)
    /\ adjustViewCalls' = adjustViewCalls + 1
    /\ UNCHANGED <<pc, states, transitions, stateIndex, transitionIndex,
                   yPos, edges, outstanding, reads, fetched, readyPromise,
                   fitViewCalls, rejections>>

NextClassify == Classify

SpecClassify == InitClassify /\ [][NextClassify]_vars

(***************************************************************************)
(* Properties.                                                             *)
(***************************************************************************)
\* decimal numerals, as String(k) writes them
Decimal == <<"1", "2", "3", "4", "5", "6", "7", "8", "9", "10", "11", "12">>

Max(a, b) == IF a >= b THEN a ELSE b

\* the indices of the edges whose source is the node id
Outgoing(id) == {e \in 1..Len(edges) : edges[e].source = id}

\* the indices of the nodes that have the type
NodesOfType(type) == {k \in 1..Len(nodes) : nodes[k].type = type}

\* the indices of the nodes that have the id
NodesWithId(id) == {k \in 1..Len(nodes) : nodes[k].id = id}

\* a node sequence without the positions
Content(ns) ==
    [k \in 1..Len(ns) |->
        [id |-> ns[k].id, data |-> ns[k].data, class |-> ns[k].class,
         type |-> ns[k].type]]

ReadsOf(f) == {k \in 1..Len(reads) : reads[k].functionName = f}

\* C1: fitView() is called only once the projection is complete (every
\* record below its count fetched and appended, no read outstanding) and
\* adjustView() has run.
C1_ReadyOnlyAfterClassification ==
    fitViewCalls > 0 =>
        /\ pc = "done"
        /\ outstanding = NoRead
        /\ adjustViewCalls > 0
        /\ Len(nodes) = Max(states - 1, 0)
        /\ Len(edges) = Max(transitions - 1, 0)

\* C2: in a run in which a read has rejected, fitView() is not called.
C2_NoReadyAfterRejection ==
    rejections > 0 => fitViewCalls = 0

\* C3: for stateCount N >= 1 the completed projection has exactly N - 1
\* nodes, and the k-th node appended has the id String(k).
C3_NodesOfCompletedProjection ==
    (pc = "done" /\ states >= 1) =>
        /\ Len(nodes) = states - 1
        /\ \A k \in 1..Len(nodes) : nodes[k].id = Decimal[k]

C3_Witness ==
    /\ pc = "done"
    /\ states = 3
    /\ Len(nodes) = 2
    /\ nodes[2].id = "2"

\* C4 as stated: for transitionCount M >= 1 the completed projection has
\* exactly M - 1 edges, their ids are 1..M-2, and source and target are
\* elements 1 and 2 of the fetched tuple.
C4_EdgeIdsUpToMMinus2 ==
    (pc = "done" /\ transitions >= 1) =>
        /\ Len(edges) = transitions - 1
        /\ {edges[k].id : k \in 1..Len(edges)} = 1..(transitions - 2)
        /\ \A k \in 1..Len(edges) :
              /\ edges[k].source = Decimal[fetched[k][2]]
              /\ edges[k].target = Decimal[fetched[k][3]]

\* C4 amended: for transitionCount M >= 1 the completed projection has
\* exactly M - 1 edges, the k-th edge has the integer id k (ids 1..M-1),
\* and its source and target are the decimal strings of elements 1 and 2
\* of the tuple fetched for index k.
C4_EdgesOfCompletedProjection ==
    (pc = "done" /\ transitions >= 1) =>
        /\ Len(edges) = transitions - 1
        /\ Len(fetched) = Len(edges)
        /\ {edges[k].id : k \in 1..Len(edges)} = 1..(transitions - 1)
        /\ \A k \in 1..Len(edges) :
              /\ edges[k].id = k
              /\ edges[k].source = Decimal[fetched[k][2]]
              /\ edges[k].target = Decimal[fetched[k][3]]

C4_Witness ==
    /\ pc = "done"
    /\ transitions = 3
    /\ Len(edges) = 2
    /\ edges[2].id = 2
    /\ edges[2].source # edges[2].target

\* C5: after classification node "1" has the type output if no edge has
\* the source "1", and the type input if some edge has.
C5_RoleOfNodeOne ==
    pc = "done" =>
        \A k \in NodesWithId("1") :
            nodes[k].type = IF Outgoing("1") = {} THEN "output" ELSE "input"

C5_Witness ==
    /\ pc = "done"
    /\ NodesWithId("1") = {1}
    /\ Outgoing("1") = {}
    /\ Len(edges) >= 1
    /\ nodes[1].type = "output"

\* C6: after classification every node without an outgoing edge has the
\* type output, and every node other than "1" with an outgoing edge has
\* the default type.
C6_OutputsAndInteriorNodes ==
    pc = "done" =>
        \A k \in 1..Len(nodes) :
            /\ Outgoing(nodes[k].id) = {} => nodes[k].type = "output"
            /\ (nodes[k].id # "1" /\ Outgoing(nodes[k].id) # {})
                   => nodes[k].type = "default"

C6_Witness ==
    /\ pc = "done"
    /\ Len(nodes) = 2
    /\ Outgoing("2") # {}
    /\ nodes[2].type = "default"
    /\ Outgoing("1") = {}
    /\ nodes[1].type = "output"

\* C7 as stated: after classification of a graph with at least one node,
\* exactly one node has the type input, the node with the id "1".
C7_ExactlyOneInput ==
    (pc = "done" /\ Len(nodes) >= 1) =>
        /\ Cardinality(NodesOfType("input")) = 1
        /\ NodesOfType("input") = NodesWithId("1")

\* C7 amended: after classification at most one node has the type input,
\* only the node with the id "1" can have it, and it has it exactly when
\* some edge has the source "1".
C7_InputOnlyNodeOne ==
    pc = "done" =>
        /\ Cardinality(NodesOfType("input")) <= 1
        /\ NodesOfType("input") \subseteq NodesWithId("1")
        /\ Len(nodes) >= 1 =>
              (NodesOfType("input") # {} <=> Outgoing("1") # {})

C7_Witness ==
    /\ pc = "done"
    /\ Len(nodes) = 2
    /\ Outgoing("1") # {}
    /\ Outgoing("2") # {}
    /\ NodesOfType("input") = {1}

\* C8: once a read has rejected no read is outstanding or issued any more,
\* the nodes and edges appended so far stay as they are, and adjustView()
\* has not run and does not run: every node keeps the default type.
C8_RejectionAborts ==
    /\ [](rejections > 0 =>
            /\ pc = "failed"
            /\ outstanding = NoRead
            /\ adjustViewCalls = 0
            /\ NodesOfType("default") = 1..Len(nodes))
    /\ [][rejections > 0 =>
            /\ reads' = reads
            /\ edges' = edges
            /\ Content(nodes') = Content(nodes)]_vars

C8_Witness ==
    /\ rejections > 0
    /\ pc = "failed"
    /\ Len(nodes) = 2
    /\ Len(edges) = 1
    /\ transitions = 3

\* C9: a second run of adjustView() on the result of a first run leaves
\* the nodes as they are.
C9_ClassificationIdempotent ==
    [][adjustViewCalls >= 1 => nodes' = nodes]_vars

C9_Witness ==
    /\ pc = "classify"
    /\ adjustViewCalls = 2
    /\ Len(nodes) = 2
    /\ NodesOfType("input") # {}
    /\ NodesOfType("output") # {}

\* C10: with stateCount 0 or 1 no states read is issued and there is no
\* node; with transitionCount 0 or 1 no transitions read is issued and
\* there is no edge; the run then goes on to its end, where adjustView()
\* has run once, without failing, and left an empty graph empty.
C10_EmptyLoops ==
    /\ states \in {0, 1} =>
          /\ ReadsOf("states") = {}
          /\ nodes = <<>>
          /\ pc # "states"
    /\ transitions \in {0, 1} =>
          /\ ReadsOf("transitions") = {}
          /\ edges = <<>>
          /\ pc \in {"states", "failed", "done"}
    /\ (states \in {0, 1} /\ transitions \in {0, 1}) =>
          /\ pc = "done"
          /\ adjustViewCalls = 1
          /\ rejections = 0

C10_Witness ==
    /\ pc = "done"
    /\ states = 1
    /\ transitions = 0
    /\ nodes = <<>>
    /\ edges = <<>>
    /\ adjustViewCalls = 1

\* the run started by onInit has begun and adjustView() has not returned
Projecting == pc \in {"stateIndex", "transitionIndex", "states", "transitions"}

\* ns2 is ns, or ns with one record appended
AppendedTo(ns, ns2) ==
    /\ Len(ns2) \in {Len(ns), Len(ns) + 1}
    /\ \A k \in 1..Len(ns) : ns2[k] = ns[k]

\* a node sequence with every type reset
Untyped(ns) == [k \in 1..Len(ns) |-> [ns[k] EXCEPT !.type = "default"]]

\* C11: from the start of the projection to the end of classification a
\* step changes the graph only by appending a node or an edge (the
\* projector) or by setting node types in the step that ends the
\* projection (the classifier).
C11_OnlyProjectorAndClassifierWrite ==
    [][Projecting =>
          /\ AppendedTo(edges, edges')
          /\ \/ AppendedTo(nodes, nodes')
             \/ /\ pc' = "done"
                /\ AppendedTo(nodes, Untyped(nodes')) ]_vars

\* C12: adjustView() has run only in a state in which every states read
\* below stateCount and every transitions read below transitionCount has
\* resolved and its record is appended, and after it has run no node or
\* edge is appended.
C12_ClassifierAfterProjector ==
    /\ [](adjustViewCalls > 0 =>
            /\ pc = "done"
            /\ adjustViewCalls = 1
            /\ outstanding = NoRead
            /\ Len(nodes) = Max(states - 1, 0)
            /\ Len(edges) = Max(transitions - 1, 0)
            /\ Len(fetched) = Len(edges)
            /\ Cardinality(ReadsOf("states")) = Len(nodes)
            /\ Cardinality(ReadsOf("transitions")) = Len(edges))
    /\ [][adjustViewCalls > 0 =>
            /\ Len(nodes') = Len(nodes)
            /\ edges' = edges]_vars

C12_Witness ==
    /\ adjustViewCalls = 1
    /\ states = 3
    /\ transitions = 3
    /\ Len(nodes) = 2
    /\ Len(edges) = 2
    /\ Len(reads) = 6

\* the number of reads that have resolved
Resolved ==
    (IF states # NoValue THEN 1 ELSE 0)
    + (IF transitions # NoValue THEN 1 ELSE 0)
    + Len(nodes) + Len(fetched)

\* the number of reads issued and neither resolved nor rejected
InFlight == Len(reads) - Resolved - rejections

\* the reads of the function, in the order of their issue
ReadSeq(f) ==
    LET Is(r) == r.functionName = f
    IN  SelectSeq(reads, Is)

\* C13: at most one read is in flight at any moment; a step issues at most
\* one read; states(i) is issued when exactly the nodes of the indices
\* below i are appended, transitions(j) when every states read has
\* resolved and exactly the edges of the indices below j are appended.
C13_SequentialReads ==
    /\ [](/\ InFlight \in {0, 1}
          /\ InFlight = 1 <=> outstanding # NoRead)
    /\ [][reads' # reads =>
            LET r == reads'[Len(reads')]
            IN  /\ reads' = Append(reads, r)
                /\ outstanding' = r
                /\ r.functionName = "states" => Len(nodes') = r.arg - 1
                /\ r.functionName = "transitions" =>
                      /\ Len(nodes') = Max(states' - 1, 0)
                      /\ Cardinality(ReadsOf("states")) = Len(nodes')
                      /\ Len(edges') = r.arg - 1]_vars

C13_Witness ==
    /\ pc = "transitions"
    /\ outstanding = Read("transitions", 2)
    /\ Len(nodes) = 2
    /\ Len(edges) = 1
    /\ InFlight = 1

\* C14: a states or transitions read has been issued only if both count
\* reads have resolved; when a count read has rejected no record read has
\* been issued and the graph is empty.
C14_CountsBeforeRecords ==
    /\ (ReadsOf("states") \cup ReadsOf("transitions")) # {} =>
          (states # NoValue /\ transitions # NoValue)
    /\ (rejections > 0 /\ (states = NoValue \/ transitions = NoValue)) =>
          /\ ReadsOf("states") = {}
          /\ ReadsOf("transitions") = {}
          /\ nodes = <<>>
          /\ edges = <<>>

C14_Witness ==
    /\ rejections > 0
    /\ states = 3
    /\ transitions = NoValue
    /\ Len(reads) = 2
    /\ nodes = <<>>

\* C15: the k-th states read issued is the read of index k, and k is below
\* stateCount; the k-th transitions read issued is the read of index k,
\* and k is below transitionCount.  So no index is read twice, none out
\* of order, and neither index 0 nor an index from the count on is read.
C15_EachIndexOnceBelowCount ==
    /\ \A k \in 1..Len(ReadSeq("states")) :
          ReadSeq("states")[k].arg = k /\ k < states
    /\ \A k \in 1..Len(ReadSeq("transitions")) :
          ReadSeq("transitions")[k].arg = k /\ k < transitions

C15_Witness ==
    /\ pc = "done"
    /\ states = 3
    /\ transitions = 3
    /\ Len(ReadSeq("states")) = 2
    /\ Len(ReadSeq("transitions")) = 2

\* C16: in every state the k-th node has the id String(k), so the ids are
\* distinct, and there are at most max(stateCount - 1, 0) nodes; the k-th
\* edge has the id k, and there are at most max(transitionCount - 1, 0)
\* edges; there is an edge only if all stateCount - 1 nodes are there.
C16_IdsInInsertionOrder ==
    /\ Len(nodes) <= Max(states - 1, 0)
    /\ \A k \in 1..Len(nodes) : nodes[k].id = Decimal[k]
    /\ \A j, k \in 1..Len(nodes) : nodes[j].id = nodes[k].id => j = k
    /\ Len(edges) <= Max(transitions - 1, 0)
    /\ \A k \in 1..Len(edges) : edges[k].id = k
    /\ edges # <<>> => Len(nodes) = Max(states - 1, 0)

C16_Witness ==
    /\ pc = "failed"
    /\ states = 3
    /\ transitions = 3
    /\ Len(nodes) = 2
    /\ Len(edges) = 1
    /\ nodes[2].position.y = 399

\* the ids of the nodes
NodeIds == {nodes[k].id : k \in 1..Len(nodes)}

\* the role the classification rules give a node id over a set of edges
ExpectedRole(id, es) ==
    IF \A e \in es : e.source # id THEN "output"
    ELSE IF id = "1" THEN "input" ELSE "default"

\* C17 as stated: every fetched edge is appended, dangling or not, the
\* run ends with adjustView() called, and the roles are those of the graph
\* without the edges whose source or target is no node id.
C17_DanglingEdgesChangeNoRole ==
    pc = "done" =>
        /\ adjustViewCalls = 1
        /\ Len(edges) = Len(fetched)
        /\ \A k \in 1..Len(edges) :
              /\ edges[k].source = Decimal[fetched[k][2]]
              /\ edges[k].target = Decimal[fetched[k][3]]
        /\ \A k \in 1..Len(nodes) :
              nodes[k].type =
                 ExpectedRole(nodes[k].id,
                              {edges[e] : e \in {d \in 1..Len(edges) :
                                  /\ edges[d].source \in NodeIds
                                  /\ edges[d].target \in NodeIds}})

\* C17 amended: every fetched edge is appended, dangling or not, the run
\* ends with adjustView() called, and the roles are those of the graph
\* without the edges whose source is no node id; an edge whose source is
\* a node id counts for that node even when its target is no node id.
C17_DanglingSourceChangesNoRole ==
    pc = "done" =>
        /\ adjustViewCalls = 1
        /\ Len(edges) = Len(fetched)
        /\ Len(edges) = Max(transitions - 1, 0)
        /\ \A k \in 1..Len(edges) :
              /\ edges[k].source = Decimal[fetched[k][2]]
              /\ edges[k].target = Decimal[fetched[k][3]]
        /\ \A k \in 1..Len(nodes) :
              nodes[k].type =
                 ExpectedRole(nodes[k].id,
                              {edges[e] : e \in {d \in 1..Len(edges) :
                                  edges[d].source \in NodeIds}})

C17_Witness ==
    /\ pc = "done"
    /\ Len(nodes) = 2
    /\ Len(edges) = 2
    /\ edges[1].source = "3"
    /\ edges[2].target = "3"
    /\ nodes[2].type = "default"

\* C18: the step that appends the k-th node gives it the id String(k) and
\* the position x = 250, y = 50 + 100 * k, whatever the fetched tuple is.
C18_PlacementByIndex ==
    [][Len(nodes') = Len(nodes) + 1 =>
          LET k == Len(nodes')
          IN  /\ nodes'[k].id = Decimal[k]
              /\ nodes'[k].position = [x |-> 250, y |-> 50 + 100 * k]
              /\ yPos' = 50 + 100 * k]_vars

C18_Witness ==
    /\ Len(nodes) = 2
    /\ nodes[1].data.label = "B"
    /\ nodes[2].data.label = "A"
    /\ nodes[1].position = [x |-> 250, y |-> 150]
    /\ nodes[2].position = [x |-> 250, y |-> 250]

(***************************************************************************)
(* The run in which every read resolves: the remote side answers every     *)
(* read that is in flight, and the event loop runs every queued reaction.  *)
(***************************************************************************)
NextResolving ==
    \/ OnInit
    \/ StateIndexResolved
    \/ FitView
    \/ TransitionIndexResolved
    \/ StateResolved
    \/ TransitionResolved
    \/ updatePos

Fairness ==
    /\ WF_vars(StateIndexResolved)
    /\ WF_vars(FitView)
    /\ WF_vars(TransitionIndexResolved)
    /\ WF_vars(StateResolved)
    /\ WF_vars(TransitionResolved)

SpecResolving == Init /\ [][NextResolving]_vars /\ Fairness

\* C19: when every read resolves, a run that has started reaches the state
\* in which adjustView() has run; there exactly
\* 2 + max(stateCount - 1, 0) + max(transitionCount - 1, 0) reads have
\* been issued, and none is issued afterwards.
C19_TerminatesAfterAllReads ==
    /\ (pc # "idle") ~> (pc = "done")
    /\ [](pc = "done" =>
            /\ adjustViewCalls = 1
            /\ outstanding = NoRead
            /\ Len(reads) = 2 + Max(states - 1, 0) + Max(transitions - 1, 0))
    /\ [][pc = "done" => (pc' = "done" /\ reads' = reads)]_vars

C19_Witness ==
    /\ pc = "done"
    /\ states = 3
    /\ transitions = 2
    /\ Len(reads) = 5
    /\ fitViewCalls = 1
    /\ rejections = 0
====
